---- MODULE Spec2Model ----
(***************************************************************************)
(* The crime-incident REST API: three route handlers (GET /incidents,     *)
(* POST /new-incident, DELETE /remove-incident) over one table Incidents  *)
(* of a SQLite store.  Strings are sequences of one-character strings so  *)
(* that split, replaceAll, pattern tests and the store's text comparison  *)
(* are computed character by character.                                    *)
(***************************************************************************)
EXTENDS Integers, Sequences, FiniteSets, TLC

VARIABLES
    server,     \* which entry point is running: "part_000" (with validate) or "index.js"
    Incidents,  \* the rows of table Incidents, in rowid order
    reqs,       \* per connection: the request being handled, Idle when none
    sent        \* the request answered last, with its response

vars == <<server, Incidents, reqs, sent>>

----------------------------------------------------------------------------
(* Bounds of the model *)

\* rows the table may hold
MaxRows == 3
\* requests that may be in flight at once
MaxInflight == 2

----------------------------------------------------------------------------
(* JavaScript values: undefined, strings, numbers and NaN *)

Undefined == [t |-> "undefined", s |-> <<>>, n |-> 0]
NaN == [t |-> "NaN", s |-> <<>>, n |-> 0]
Str(s) == [t |-> "string", s |-> s, n |-> 0]
Num(n) == [t |-> "number", s |-> <<>>, n |-> n]

\* JavaScript truthiness, as used by `!queryValue`, `req.query.limit ?`, `!caseNumber`
Truthy(v) ==
    CASE v.t = "string" -> v.s # <<>>
      [] v.t = "number" -> v.n # 0
      [] OTHER -> FALSE

Digits == <<"0", "1", "2", "3", "4", "5", "6", "7", "8", "9">>
IsDigit(c) == \E i \in 1..10 : Digits[i] = c
DigitVal(c) == (CHOOSE i \in 1..10 : Digits[i] = c) - 1

\* the characters of the model in ascending code-point order
Alphabet == <<" ", ",", "-", "/", "0", "1", "2", "3", "4", "5", "6", "7", "8",
              "9", ":", "A", "B", "d", "e", "f", "i", "n", "u", "x">>
CharCode(c) == CHOOSE i \in 1..Len(Alphabet) : Alphabet[i] = c

\* String.prototype.replaceAll(a, b) for one-character a and b
replaceAll(s, a, b) == [i \in 1..Len(s) |-> IF s[i] = a THEN b ELSE s[i]]

\* String.prototype.split(sep) for a one-character separator
RECURSIVE split(_, _)
split(s, sep) ==
    IF \A i \in 1..Len(s) : s[i] # sep
    THEN <<s>>
    ELSE LET k == CHOOSE i \in 1..Len(s) :
                      s[i] = sep /\ \A j \in 1..(i - 1) : s[j] # sep
         IN <<SubSeq(s, 1, k - 1)>> \o split(SubSeq(s, k + 1, Len(s)), sep)

\* a non-empty run of decimal digits
IsDigits(s) == Len(s) > 0 /\ \A i \in 1..Len(s) : IsDigit(s[i])

RECURSIVE ToNat(_)
ToNat(s) == IF s = <<>> THEN 0
            ELSE 10 * ToNat(SubSeq(s, 1, Len(s) - 1)) + DigitVal(s[Len(s)])

\* `${v}` : the string a template literal writes for a value
RECURSIVE NatStr(_)
NatStr(n) == IF n < 10 THEN <<Digits[n + 1]>>
             ELSE NatStr(n \div 10) \o <<Digits[(n % 10) + 1]>>
String(v) ==
    CASE v.t = "string" -> v.s
      [] v.t = "number" -> NatStr(v.n)
      [] v.t = "NaN" -> <<"N", "a", "N">>
      [] OTHER -> <<"u", "n", "d", "e", "f", "i", "n", "e", "d">>

\* parseInt(v, 10): the leading digits of String(v), NaN when there are none
parseInt(v) ==
    LET s == String(v)
        lead == {k \in 0..Len(s) : \A i \in 1..k : IsDigit(s[i])}
        k == CHOOSE x \in lead : \A y \in lead : y <= x
    IN IF k = 0 THEN NaN ELSE Num(ToNat(SubSeq(s, 1, k)))

\* the store's binary collation of two texts (memcmp, then length)
RECURSIVE TextLess(_, _)
TextLess(a, b) ==
    IF b = <<>> THEN FALSE
    ELSE IF a = <<>> THEN TRUE
    ELSE IF a[1] # b[1] THEN CharCode(a[1]) < CharCode(b[1])
    ELSE TextLess(Tail(a), Tail(b))

----------------------------------------------------------------------------
(* The Joi schemas and the validate middleware *)

\* /^\d+(,\d+)*$/
IsIntList(s) ==
    /\ Len(s) > 0
    /\ \A i \in 1..Len(s) : IsDigit(s[i]) \/ s[i] = ","
    /\ s[1] # "," /\ s[Len(s)] # ","
    /\ \A i \in 1..(Len(s) - 1) : ~(s[i] = "," /\ s[i + 1] = ",")

\* /^\d{4}-\d{2}-\d{2}$/
IsDate(s) ==
    /\ Len(s) = 10
    /\ \A i \in {1, 2, 3, 4, 6, 7, 9, 10} : IsDigit(s[i])
    /\ s[5] = "-" /\ s[8] = "-"

\* /^\d{2}:\d{2}:\d{2}$/
IsTime(s) ==
    /\ Len(s) = 8
    /\ \A i \in {1, 2, 4, 5, 7, 8} : IsDigit(s[i])
    /\ s[3] = ":" /\ s[6] = ":"

Matches(pattern, s) ==
    CASE pattern = "intlist" -> IsIntList(s)
      [] pattern = "date" -> IsDate(s)
      [] pattern = "time" -> IsTime(s)
      [] OTHER -> TRUE

JoiString(key, pattern, required) ==
    [key |-> key, type |-> "string", pattern |-> pattern, required |-> required, max |-> 0]
\* Joi.number().integer().positive(), with .max(max) when max > 0
JoiNumber(key, required, max) ==
    [key |-> key, type |-> "number", pattern |-> "", required |-> required, max |-> max]

LimitMax == 1000
DefaultLimit == 1000

newIncidentSchema ==
    << JoiString("case_number", "", TRUE),
       JoiString("date", "date", TRUE),
       JoiString("time", "time", TRUE),
       JoiNumber("code", TRUE, 0),
       JoiString("incident", "", TRUE),
       JoiNumber("police_grid", TRUE, 0),
       JoiNumber("neighborhood_number", TRUE, 0),
       JoiString("block", "", TRUE) >>

querySchema ==
    << JoiString("code", "intlist", FALSE),
       JoiString("neighborhood", "intlist", FALSE),
       JoiString("grid", "intlist", FALSE),
       JoiNumber("limit", FALSE, LimitMax),
       JoiString("start_date", "date", FALSE),
       JoiString("end_date", "date", FALSE) >>

removeIncidentSchema == << JoiString("case_number", "", TRUE) >>

\* one key of a Joi object schema: the first rule the value breaks ("" when
\* none) and the value after Joi's conversion (a numeric string becomes a number)
CheckField(rule, v) ==
    IF v.t = "undefined"
    THEN [err |-> IF rule.required THEN "is required" ELSE "", value |-> v]
    ELSE IF rule.type = "string"
    THEN [err |-> IF v.t # "string" THEN "must be a string"
                  ELSE IF v.s = <<>> THEN "is not allowed to be empty"
                  ELSE IF ~Matches(rule.pattern, v.s)
                       THEN "fails to match the required pattern"
                  ELSE "",
          value |-> v]
    ELSE LET c == IF v.t = "string" /\ IsDigits(v.s) THEN Num(ToNat(v.s)) ELSE v
         IN [err |-> IF c.t # "number" THEN "must be a number"
                     ELSE IF c.n <= 0 THEN "must be a positive number"
                     ELSE IF rule.max > 0 /\ c.n > rule.max
                          THEN "must be less than or equal to 1000"
                     ELSE "",
             value |-> c]

\* schema.validate(obj): {error, value}; error is <<>> when obj passes.  Keys
\* are checked in schema order and the first violation is reported; a key the
\* schema does not list (the model's key "extra") is not allowed.
schemaValidate(schema, obj) ==
    LET res == [i \in 1..Len(schema) |-> CheckField(schema[i], obj[schema[i].key])]
        bad == {i \in 1..Len(schema) : res[i].err # ""}
        first == CHOOSE i \in bad : \A j \in bad : i <= j
    IN IF bad # {}
       THEN [error |-> <<schema[first].key, res[first].err>>, value |-> obj]
       ELSE IF obj.extra.t # "undefined"
       THEN [error |-> <<"extra", "is not allowed">>, value |-> obj]
       ELSE [error |-> <<>>,
             value |-> [k \in DOMAIN obj |->
                           IF \E i \in 1..Len(schema) : schema[i].key = k
                           THEN res[CHOOSE i \in 1..Len(schema) : schema[i].key = k].value
                           ELSE obj[k]]]

\* validate(schema, property): the middleware.  index.js registers its routes
\* without it, so there every request reaches the handler unchanged.
validate(schema, obj) ==
    IF server = "part_000" THEN schemaValidate(schema, obj)
    ELSE [error |-> <<>>, value |-> obj]

----------------------------------------------------------------------------
(* SQL statements: the text is kept as its clauses, each with its '?' marks *)

Clause(col, op, conditions) == [col |-> col, op |-> op, conditions |-> conditions]
NoClause == Clause("", "", <<>>)

\* buildFilterClause writing a single '?' whatever the number of values
buildFilterClause_OneMark(filterKey, queryValue) ==
    IF ~Truthy(queryValue) THEN [clause |-> NoClause, params |-> <<>>]
    ELSE LET values == split(String(queryValue), ",")
         IN [clause |-> Clause(filterKey, "IN", <<"?">>),
             params |-> [i \in 1..Len(values) |-> Str(values[i])]]

buildFilterClause(filterKey, queryValue) ==
    IF ~Truthy(queryValue) THEN [clause |-> NoClause, params |-> <<>>]
    ELSE LET values == split(String(queryValue), ",")
             conditions == [i \in 1..Len(values) |-> "?"]
         IN [clause |-> Clause(filterKey, "IN", conditions),
             params |-> [i \in 1..Len(values) |-> Str(values[i])]]

Sql(verb, filters, order, limit) ==
    [verb |-> verb, filters |-> filters, order |-> order, limit |-> limit]

RECURSIVE Placeholders(_)
\* the number of '?' in a list of clauses
Placeholders(filters) ==
    IF filters = <<>> THEN 0
    ELSE Len(filters[1].conditions) + Placeholders(Tail(filters))

\* the statement and parameter list GET /incidents builds from req.query
FilterKeys == << <<"code", "code">>, <<"neighborhood", "neighborhood_number">>,
                 <<"grid", "police_grid">> >>

RECURSIVE ForEachKey(_, _)
\* the forEach over ["code", "neighborhood", "grid"], from key i on
ForEachKey(query, i) ==
    IF i > Len(FilterKeys) THEN [filters |-> <<>>, params |-> <<>>]
    ELSE LET filter == buildFilterClause(FilterKeys[i][2], query[FilterKeys[i][1]])
             rest == ForEachKey(query, i + 1)
         IN IF filter.clause # NoClause
            THEN [filters |-> <<filter.clause>> \o rest.filters,
                  params |-> filter.params \o rest.params]
            ELSE rest

DateClause(query, key, op) ==
    IF Truthy(query[key])
    THEN [filters |-> <<Clause("date_time", op, <<"?">>)>>,
          params |-> <<Str(replaceAll(String(query[key]), "-", "/"))>>]
    ELSE [filters |-> <<>>, params |-> <<>>]

BuildQuery(query) ==
    LET f == ForEachKey(query, 1)
        s == DateClause(query, "start_date", ">=")
        e == DateClause(query, "end_date", "<=")
        limit == IF Truthy(query.limit) THEN parseInt(query.limit) ELSE Num(DefaultLimit)
    IN [sql |-> Sql("SELECT", f.filters \o s.filters \o e.filters, "date_time DESC", limit),
        params |-> f.params \o s.params \o e.params]


----------------------------------------------------------------------------
(* The store: table Incidents behind db.all and db.run *)

Columns == <<"case_number", "date_time", "code", "incident", "police_grid",
             "neighborhood_number", "block">>

\* declared type of each column of table Incidents
ColumnType(col) ==
    IF col \in {"code", "police_grid", "neighborhood_number"} THEN "INTEGER" ELSE "TEXT"

\* the value the store keeps for a bound value: undefined binds as NULL, and
\* the column's affinity converts a numeric text to a number or a number to text
Stored(col, v) ==
    CASE v.t = "string" /\ ColumnType(col) = "INTEGER" /\ IsDigits(v.s) -> Num(ToNat(v.s))
      [] v.t \in {"number", "NaN"} /\ ColumnType(col) = "TEXT" -> Str(String(v))
      [] OTHER -> v

\* column = ? : NULL equals nothing; the parameter takes the column's affinity
ColEq(col, v, p) ==
    LET q == Stored(col, p)
    IN /\ v.t # "undefined" /\ q.t # "undefined"
       /\ v.t = q.t
       /\ IF v.t = "string" THEN v.s = q.s ELSE v.n = q.n

\* the j-th '?' of clause i takes the next parameter in order; a '?' with no
\* parameter left stays NULL
RECURSIVE Offset(_, _)
Offset(filters, i) ==
    IF i <= 1 THEN 0 ELSE Offset(filters, i - 1) + Len(filters[i - 1].conditions)
Bound(filters, params, i, j) ==
    LET k == Offset(filters, i) + j
    IN IF k <= Len(params) THEN params[k] ELSE Undefined

ClausePasses(row, filters, params, i) ==
    LET c == filters[i]
        v == row[c.col]
        p == Bound(filters, params, i, 1)
    IN CASE c.op = "IN" ->
              \E j \in 1..Len(c.conditions) : ColEq(c.col, v, Bound(filters, params, i, j))
         [] c.op = "=" -> ColEq(c.col, v, p)
         [] c.op = ">=" -> v.t = "string" /\ p.t = "string" /\ ~TextLess(v.s, p.s)
         [] c.op = "<=" -> v.t = "string" /\ p.t = "string" /\ ~TextLess(p.s, v.s)
         [] OTHER -> FALSE

Where(row, filters, params) ==
    \A i \in 1..Len(filters) : ClausePasses(row, filters, params, i)

Min(a, b) == IF a < b THEN a ELSE b

\* ORDER BY date_time DESC LIMIT n over the rows that pass WHERE: every order
\* the store may return (rows with equal date_time come in any order)
OrderedRows(rows, sql, params) ==
    LET M == {i \in 1..Len(rows) : Where(rows[i], sql.filters, params)}
        n == Cardinality(M)
        orders == {f \in [1..n -> M] :
                      /\ \A a, b \in 1..n : a # b => f[a] # f[b]
                      /\ sql.order = "date_time DESC" =>
                            \A a, b \in 1..n : a < b =>
                                ~TextLess(rows[f[a]].date_time.s, rows[f[b]].date_time.s)}
        k == IF sql.limit.t = "number" THEN Min(n, sql.limit.n) ELSE n
    IN {[j \in 1..k |-> rows[f[j]]] : f \in orders}

EngineError == <<"SQLITE_ERROR">>

\* dbSelect(query, params): the outcomes of db.all.  Any statement may fail in
\* the engine; more parameters than '?' marks and a LIMIT that is no number
\* always fail.
dbSelect(sql, params) ==
    {[err |-> EngineError, rows |-> <<>>]}
    \cup IF \/ Len(params) > Placeholders(sql.filters)
            \/ sql.limit.t \notin {"number", "undefined"}
         THEN {}
         ELSE {[err |-> <<>>, rows |-> r] : r \in OrderedRows(Incidents, sql, params)}

\* the row INSERT INTO Incidents (...) VALUES (?,?,?,?,?,?,?) adds
InsertedRow(params) ==
    [c \in {Columns[i] : i \in 1..Len(Columns)} |->
        LET i == CHOOSE j \in 1..Len(Columns) : Columns[j] = c
        IN Stored(c, params[i])]

\* a delete that stops at the first row it matches (DELETE ... LIMIT 1)
DeleteRows_First(rows, params) ==
    LET f == <<Clause("case_number", "=", <<"?">>)>>
        hit == {i \in 1..Len(rows) : Where(rows[i], f, params)}
        k == CHOOSE i \in hit : \A j \in hit : i <= j
    IN IF hit = {} THEN rows
       ELSE SubSeq(rows, 1, k - 1) \o SubSeq(rows, k + 1, Len(rows))

\* the table after DELETE FROM Incidents WHERE case_number = ?
DeleteRows(rows, params) ==
    LET f == <<Clause("case_number", "=", <<"?">>)>>
        keep(r) == ~Where(r, f, params)
    IN SelectSeq(rows, keep)

\* a db.run whose DELETE reports "not found" when it matches no row
dbRun_Conditional(sql, params) ==
    {[err |-> EngineError, table |-> Incidents]}
    \cup IF sql.verb = "INSERT"
         THEN {[err |-> <<>>, table |-> Append(Incidents, InsertedRow(params))]}
         ELSE IF DeleteRows(Incidents, params) = Incidents
         THEN {[err |-> <<"Case Number Not Found">>, table |-> Incidents]}
         ELSE {[err |-> <<>>, table |-> DeleteRows(Incidents, params)]}

\* dbRun(query, params): the outcomes of db.run, each the error (<<>> when
\* none) and the table afterwards
dbRun(sql, params) ==
    {[err |-> EngineError, table |-> Incidents]}
    \cup IF sql.verb = "INSERT"
         THEN {[err |-> <<>>, table |-> Append(Incidents, InsertedRow(params))]}
         ELSE {[err |-> <<>>, table |-> DeleteRows(Incidents, params)]}


----------------------------------------------------------------------------
(* Requests and responses *)

Slots == 1..MaxInflight

\* res.status(status).type(type).send(text or rows)
Res(status, type, text, rows) ==
    [status |-> status, type |-> type, text |-> text, rows |-> rows]
NoRes == Res(0, "", <<>>, <<>>)

NoSql == [verb |-> "", filters |-> <<>>, order |-> "", limit |-> Undefined]

\* a connection with no request
Idle ==
    [kind |-> "idle", pc |-> "idle", input |-> <<>>, sql |-> NoSql, params |-> <<>>,
     found |-> 0, removed |-> 0, res |-> NoRes, ops |-> <<>>]

\* a request: pc is the db call it awaits ("all", "run"), ops the db calls it
\* has made, found the number of rows its existence check saw
Pending(kind, pc, input, sql, params, found, ops) ==
    [kind |-> kind, pc |-> pc, input |-> input, sql |-> sql, params |-> params,
     found |-> found, removed |-> 0, res |-> NoRes, ops |-> ops]

\* the request r on connection s is answered with res; removed is the number
\* of rows its statement took out of the table
Reply(s, r, res, removed) ==
    /\ sent' = [r EXCEPT !.pc = "done", !.res = res, !.removed = removed]
    /\ reqs' = [reqs EXCEPT ![s] = Idle]

\* the request r on connection s goes on to wait for the store
Await(s, r) ==
    /\ reqs' = [reqs EXCEPT ![s] = r]
    /\ UNCHANGED sent

Free(s) == reqs[s].pc = "idle"

----------------------------------------------------------------------------
(* GET /incidents *)

\* validate(querySchema, "query") and the handler up to the call of dbSelect
GetIncidents(s, query) ==
    /\ Free(s)
    /\ LET v == validate(querySchema, query)
           q == BuildQuery(v.value)
       IN IF v.error # <<>>
          THEN Reply(s, Pending("GET", "", query, NoSql, <<>>, 0, <<>>),
                     Res(400, "html", <<"Validation Error: ">> \o v.error, <<>>), 0)
          ELSE Await(s, Pending("GET", "all", query, q.sql, q.params, 0, <<"all">>))
    /\ UNCHANGED <<server, Incidents>>

\* rows sent as stored, without the replaceAll
Shown_Raw(rows) == rows

\* item.date_time = item.date_time.replaceAll("/", "-") for every row
Shown(rows) ==
    [i \in 1..Len(rows) |->
        [rows[i] EXCEPT !.date_time = Str(replaceAll(rows[i].date_time.s, "/", "-"))]]

\* the .then / .catch of dbSelect
GetIncidentsThen(s) ==
    /\ reqs[s].kind = "GET" /\ reqs[s].pc = "all"
    /\ \E o \in dbSelect(reqs[s].sql, reqs[s].params) :
          IF o.err # <<>>
          THEN Reply(s, reqs[s], Res(500, "txt", o.err, <<>>), 0)
          ELSE IF \E i \in 1..Len(o.rows) : o.rows[i].date_time.t # "string"
          THEN Reply(s, reqs[s], Res(500, "txt", <<"TypeError">>, <<>>), 0)
          ELSE Reply(s, reqs[s], Res(200, "json", <<>>, Shown(o.rows)), 0)
    /\ UNCHANGED <<server, Incidents>>

----------------------------------------------------------------------------
(* POST /new-incident *)

InsertSql ==
    Sql("INSERT", <<Clause("", "VALUES", <<"?", "?", "?", "?", "?", "?", "?">>)>>,
        "", Undefined)

\* params whose date_time joins date and time without the space
InsertParams_NoSpace(newIncident) ==
    << newIncident.case_number,
       Str(String(newIncident.date) \o String(newIncident.time)),
       newIncident.code,
       newIncident.incident,
       newIncident.police_grid,
       newIncident.neighborhood_number,
       newIncident.block >>

\* the params array of the insert; date_time is `${date} ${time}`
InsertParams(newIncident) ==
    << newIncident.case_number,
       Str(String(newIncident.date) \o <<" ">> \o String(newIncident.time)),
       newIncident.code,
       newIncident.incident,
       newIncident.police_grid,
       newIncident.neighborhood_number,
       newIncident.block >>

PendingInserts == Cardinality({s \in Slots : reqs[s].kind = "POST"})

\* validate(newIncidentSchema) and the handler up to the call of dbRun
PostNewIncident(s, body) ==
    /\ Free(s)
    /\ Len(Incidents) + PendingInserts < MaxRows
    /\ LET v == validate(newIncidentSchema, body)
       IN IF v.error # <<>>
          THEN Reply(s, Pending("POST", "", body, NoSql, <<>>, 0, <<>>),
                     Res(400, "html", <<"Validation Error: ">> \o v.error, <<>>), 0)
          ELSE Await(s, Pending("POST", "run", body, InsertSql, InsertParams(v.value),
                                0, <<"run">>))
    /\ UNCHANGED <<server, Incidents>>

\* after await dbRun: send OK, or the catch block
PostNewIncidentRun(s) ==
    /\ reqs[s].kind = "POST" /\ reqs[s].pc = "run"
    /\ \E o \in dbRun(reqs[s].sql, reqs[s].params) :
          /\ Incidents' = o.table
          /\ IF o.err # <<>>
             THEN Reply(s, reqs[s], Res(500, "txt", o.err, <<>>), 0)
             ELSE Reply(s, reqs[s], Res(200, "txt", <<"OK">>, <<>>), 0)
    /\ UNCHANGED server

----------------------------------------------------------------------------
(* DELETE /remove-incident *)

SelectByCase == Sql("SELECT", <<Clause("case_number", "=", <<"?">>)>>, "", Undefined)
DeleteByCase == Sql("DELETE", <<Clause("case_number", "=", <<"?">>)>>, "", Undefined)

\* validate(removeIncidentSchema) and the handler up to the first await
RemoveIncident(s, body) ==
    /\ Free(s)
    /\ LET v == validate(removeIncidentSchema, body)
           caseNumber == v.value.case_number
       IN IF v.error # <<>>
          THEN Reply(s, Pending("DELETE", "", body, NoSql, <<>>, 0, <<>>),
                     Res(400, "html", <<"Validation Error: ">> \o v.error, <<>>), 0)
          ELSE IF ~Truthy(caseNumber)
          THEN Reply(s, Pending("DELETE", "", body, NoSql, <<>>, 0, <<>>),
                     Res(500, "txt", <<"Case number is required">>, <<>>), 0)
          ELSE Await(s, Pending("DELETE", "all", body, SelectByCase, <<caseNumber>>,
                                0, <<"all">>))
    /\ UNCHANGED <<server, Incidents>>

\* an existence check that never fires
NotFound_Never(incident) == FALSE

\* incident.length === 0
NotFound(incident) == Len(incident) = 0

\* after await dbSelect: the existence check, then the call of dbRun
RemoveIncidentSelected(s) ==
    /\ reqs[s].kind = "DELETE" /\ reqs[s].pc = "all"
    /\ \E o \in dbSelect(reqs[s].sql, reqs[s].params) :
          IF o.err # <<>>
          THEN Reply(s, reqs[s], Res(500, "txt", o.err, <<>>), 0)
          ELSE IF NotFound(o.rows)
          THEN Reply(s, reqs[s], Res(500, "txt", <<"Case Number Not Found">>, <<>>), 0)
          ELSE Await(s, Pending("DELETE", "run", reqs[s].input, DeleteByCase,
                                reqs[s].params, Len(o.rows), Append(reqs[s].ops, "run")))
    /\ UNCHANGED <<server, Incidents>>

\* after await dbRun: the confirmation, or the catch block
RemoveIncidentRun(s) ==
    /\ reqs[s].kind = "DELETE" /\ reqs[s].pc = "run"
    /\ \E o \in dbRun(reqs[s].sql, reqs[s].params) :
          /\ Incidents' = o.table
          /\ IF o.err # <<>>
             THEN Reply(s, reqs[s], Res(500, "txt", o.err, <<>>), 0)
             ELSE Reply(s, reqs[s],
                        Res(200, "txt",
                            <<"Case number ">> \o String(reqs[s].params[1])
                                \o <<" has been deleted.">>, <<>>),
                        Len(Incidents) - Len(o.table))
    /\ UNCHANGED server

----------------------------------------------------------------------------
(* The requests and the tables the model draws from *)

CaseA == <<"A">>
CaseB == <<"B">>
Date1 == <<"2", "0", "2", "3", "-", "0", "1", "-", "0", "1">>
Date2 == <<"2", "0", "2", "3", "-", "0", "1", "-", "0", "2">>
Time1 == <<"1", "0", ":", "0", "0", ":", "0", "0">>

Body(case, date, time, code, incident, grid, nbhd, block, extra) ==
    [case_number |-> case, date |-> date, time |-> time, code |-> code,
     incident |-> incident, police_grid |-> grid, neighborhood_number |-> nbhd,
     block |-> block, extra |-> extra]

BaseBody ==
    Body(Str(CaseA), Str(Date2), Str(Time1), Num(1), Str(<<"x">>), Num(1), Num(1),
         Str(<<"x">>), Undefined)

\* bodies that pass newIncidentSchema
ValidBodies ==
    {BaseBody, [BaseBody EXCEPT !.case_number = Str(CaseB), !.date = Str(Date1),
                                !.code = Str(<<"2">>)]}

\* bodies that break newIncidentSchema: each required key missing in turn, and
\* malformed values
InvalidBodies ==
    {[BaseBody EXCEPT ![k] = Undefined] :
        k \in {"case_number", "date", "time", "code", "incident", "police_grid",
               "neighborhood_number", "block"}}
    \cup {[BaseBody EXCEPT !.date = Str(replaceAll(Date1, "-", "/"))],
          [BaseBody EXCEPT !.code = Num(0)],
          [BaseBody EXCEPT !.case_number = Str(<<>>)],
          [BaseBody EXCEPT !.extra = Str(<<"x">>)]}

Bodies == ValidBodies \cup InvalidBodies

RemoveBody(case, extra) == [case_number |-> case, extra |-> extra]

ValidRemoveBodies == {RemoveBody(Str(CaseA), Undefined), RemoveBody(Str(CaseB), Undefined)}

RemoveBodies ==
    ValidRemoveBodies
    \cup {RemoveBody(Str(<<>>), Undefined), RemoveBody(Undefined, Undefined),
          RemoveBody(Str(CaseA), Str(<<"x">>))}

Query(code, nbhd, grid, limit, start, end, extra) ==
    [code |-> code, neighborhood |-> nbhd, grid |-> grid, limit |-> limit,
     start_date |-> start, end_date |-> end, extra |-> extra]

NoQuery == Query(Undefined, Undefined, Undefined, Undefined, Undefined, Undefined, Undefined)

Queries ==
    {Query(c, Undefined, Undefined, l, Undefined, Undefined, Undefined) :
        c \in {Undefined, Str(<<"1">>), Str(<<"2", ",", "1">>)},
        l \in {Undefined, Str(<<"1">>)}}
    \cup {Query(Undefined, Undefined, Undefined, Undefined, a, b, Undefined) :
        a \in {Undefined, Str(Date1), Str(Date2)}, b \in {Undefined, Str(Date1), Str(Date2)}}
    \cup {Query(Str(<<"2", ",", "1">>), Str(<<"1">>), Str(<<"1">>), Str(<<"2">>), Str(Date1),
                Str(Date2), Undefined),
          Query(Str(<<"2">>), Str(<<"2">>), Undefined, Undefined, Undefined, Undefined, Undefined),
          [NoQuery EXCEPT !.code = Str(<<"1", ",">>)],
          [NoQuery EXCEPT !.grid = Str(<<>>)],
          [NoQuery EXCEPT !.neighborhood = Str(<<"x">>)],
          [NoQuery EXCEPT !.limit = Str(<<"1", "0", "0", "1">>)],
          [NoQuery EXCEPT !.limit = Str(<<"0">>)],
          [NoQuery EXCEPT !.limit = Str(<<"x">>)],
          [NoQuery EXCEPT !.start_date = Str(replaceAll(Date1, "-", "/"))],
          [NoQuery EXCEPT !.extra = Str(<<"x">>)]}

\* a row as the table holds it from before the server started: date_time in
\* the form YYYY/MM/DD HH:MM:SS
LegacyRow(case, date, code) ==
    [case_number |-> Str(case),
     date_time |-> Str(replaceAll(date, "-", "/") \o <<" ">> \o Time1),
     code |-> Num(code), incident |-> Str(<<"x">>), police_grid |-> Num(1),
     neighborhood_number |-> Num(1), block |-> Str(<<"x">>)]

LegacyRows == {LegacyRow(CaseA, Date1, 1), LegacyRow(CaseB, Date2, 2)}

InitTables ==
    {<<>>} \cup {<<r>> : r \in LegacyRows} \cup {<<r, q>> : r \in LegacyRows, q \in LegacyRows}

----------------------------------------------------------------------------
(* The specifications *)

InitReqs == reqs = [s \in Slots |-> Idle] /\ sent = Idle

\* part_000, whose routes go through validate
Init ==
    /\ server = "part_000"
    /\ Incidents \in InitTables
    /\ InitReqs

\* index.js, whose routes do not
InitIndex ==
    /\ server = "index.js"
    /\ Incidents \in InitTables
    /\ InitReqs

\* one client that sends its next request when the last is answered
Next ==
    \/ \E query \in Queries : GetIncidents(1, query)
    \/ GetIncidentsThen(1)
    \/ \E body \in Bodies : PostNewIncident(1, body)
    \/ PostNewIncidentRun(1)
    \/ \E body \in RemoveBodies : RemoveIncident(1, body)
    \/ RemoveIncidentSelected(1)
    \/ RemoveIncidentRun(1)

Spec == Init /\ [][Next]_vars

\* the same client against index.js
IndexBodies == {BaseBody, [BaseBody EXCEPT !.block = Undefined]}
IndexQueries ==
    {NoQuery, [NoQuery EXCEPT !.code = Str(<<"1", ",">>)],
     [NoQuery EXCEPT !.limit = Str(<<"1", "0", "0", "1">>)],
     [NoQuery EXCEPT !.limit = Str(<<"x">>)]}

NextIndex ==
    \/ \E query \in IndexQueries : GetIncidents(1, query)
    \/ GetIncidentsThen(1)
    \/ \E body \in IndexBodies : PostNewIncident(1, body)
    \/ PostNewIncidentRun(1)
    \/ \E body \in RemoveBodies : RemoveIncident(1, body)
    \/ RemoveIncidentSelected(1)
    \/ RemoveIncidentRun(1)

SpecIndex == InitIndex /\ [][NextIndex]_vars

\* clients that create and remove incidents at the same time: their requests
\* interleave at every await
NextRace ==
    \E s \in Slots :
        \/ PostNewIncident(s, BaseBody)
        \/ PostNewIncidentRun(s)
        \/ \E body \in ValidRemoveBodies : RemoveIncident(s, body)
        \/ RemoveIncidentSelected(s)
        \/ RemoveIncidentRun(s)

SpecRace == Init /\ [][NextRace]_vars

----------------------------------------------------------------------------
(* What the claims below speak about *)

\* connection s takes a step of its request
Steps(s) == reqs'[s].pc # reqs[s].pc

\* the store failed the statement of the request answered last
EngineFailed(r) == r.res.text = EngineError

\* the positions of the rows of a table that carry case number c
RowsOfCase(table, c) == {i \in 1..Len(table) : table[i].case_number = c}

\* a table without its rows of case number c, the others in place
WithoutCase(table, c) ==
    LET other(r) == r.case_number # c
    IN SelectSeq(table, other)

SchemaOf(kind) ==
    CASE kind = "GET" -> querySchema
      [] kind = "POST" -> newIncidentSchema
      [] OTHER -> removeIncidentSchema

\* the query or body of request r breaks the schema of its endpoint
FailsSchema(r) ==
    r.kind # "idle" /\ schemaValidate(SchemaOf(r.kind), r.input).error # <<>>

----------------------------------------------------------------------------
\* C1: on each of the three endpoints a request whose query or body fails its
\* validation schema is answered 400 and makes no store call: no such request
\* is ever waiting for the store, and the one answered last, if it fails its
\* schema, has status 400 and an empty list of store calls.  (Stated for any
\* server; index.js breaks it, part_000 keeps it.)
C1_InvalidNeverReachesStore ==
    /\ \A s \in Slots : ~FailsSchema(reqs[s])
    /\ FailsSchema(sent) => sent.res.status = 400 /\ sent.ops = <<>>

----------------------------------------------------------------------------
\* C2: a DELETE whose case number matches no stored row when its existence
\* check runs is answered 500, with the message "Case Number Not Found" unless
\* the store failed the check, never calls dbRun, and neither its arrival nor
\* its check changes the table.
C2_DeleteNotFound ==
    [][\A s \in Slots :
          /\ (reqs[s].pc = "idle" /\ reqs'[s].kind = "DELETE") => Incidents' = Incidents
          /\ (reqs[s].kind = "DELETE" /\ reqs[s].pc = "all" /\ Steps(s)) =>
                /\ Incidents' = Incidents
                /\ RowsOfCase(Incidents, reqs[s].params[1]) = {} =>
                      /\ reqs'[s].pc = "idle"
                      /\ sent'.input = reqs[s].input
                      /\ sent'.res.status = 500
                      /\ sent'.ops = <<"all">>
                      /\ ~EngineFailed(sent') =>
                            sent'.res.text = <<"Case Number Not Found">>]_vars

\* a DELETE for a case number that is not stored was answered not-found while
\* the table holds rows
C2_Witness ==
    /\ sent.kind = "DELETE"
    /\ sent.res.status = 500
    /\ sent.res.text = <<"Case Number Not Found">>
    /\ Len(Incidents) > 0
    /\ RowsOfCase(Incidents, sent.params[1]) = {}

----------------------------------------------------------------------------
\* C3: a DELETE whose case number matches at least one stored row at its
\* existence check goes on to the delete statement (unless the store fails the
\* check); the delete statement, unless the store fails it, removes every row
\* with exactly that case number, leaves every other row in place, and the
\* answer is 200 with a text that names the case number.
C3_DeleteRemovesAll ==
    [][\A s \in Slots :
          /\ (reqs[s].kind = "DELETE" /\ reqs[s].pc = "all" /\ Steps(s)
                /\ RowsOfCase(Incidents, reqs[s].params[1]) # {}) =>
                \/ reqs'[s].pc = "run" /\ reqs'[s].params = reqs[s].params
                \/ reqs'[s].pc = "idle" /\ EngineFailed(sent')
          /\ (reqs[s].kind = "DELETE" /\ reqs[s].pc = "run" /\ Steps(s)) =>
                LET c == reqs[s].params[1]
                IN IF EngineFailed(sent')
                   THEN Incidents' = Incidents /\ sent'.res.status = 500
                   ELSE /\ Incidents' = WithoutCase(Incidents, c)
                        /\ sent'.res.status = 200
                        /\ sent'.removed = Cardinality(RowsOfCase(Incidents, c))
                        /\ SubSeq(sent'.res.text, 2, 1 + Len(c.s)) = c.s]_vars

\* a DELETE removed two rows of its case number at once and a row of another
\* case number is still stored
C3_Witness ==
    /\ sent.kind = "DELETE"
    /\ sent.res.status = 200
    /\ sent.removed >= 2
    /\ Len(Incidents) >= 1
    /\ RowsOfCase(Incidents, sent.params[1]) = {}

----------------------------------------------------------------------------
\* C4: the insert of a POST with a valid body, when the store accepts it, adds
\* exactly one row after the rows already stored, which stay as they are (also
\* when one of them has the same case number); the new row has the body's case
\* number and date_time = date, one space, time; the answer is 200 "OK".
C4_PostAddsOneRow ==
    [][\A s \in Slots :
          (reqs[s].kind = "POST" /\ reqs[s].pc = "run" /\ Steps(s)
             /\ ~FailsSchema(reqs[s]) /\ ~EngineFailed(sent')) =>
                LET body == reqs[s].input
                    n == Len(Incidents)
                IN /\ Len(Incidents') = n + 1
                   /\ SubSeq(Incidents', 1, n) = Incidents
                   /\ Incidents'[n + 1].case_number = body.case_number
                   /\ Incidents'[n + 1].date_time
                        = Str(body.date.s \o <<" ">> \o body.time.s)
                   /\ sent'.res.status = 200
                   /\ sent'.res.text = <<"OK">>]_vars

\* a POST was answered OK and its row is stored after an older row with the
\* same case number
C4_Witness ==
    /\ sent.kind = "POST"
    /\ sent.res.status = 200
    /\ Len(Incidents) >= 2
    /\ Incidents[Len(Incidents)].case_number = sent.input.case_number
    /\ Incidents[Len(Incidents)].date_time
         = Str(sent.input.date.s \o <<" ">> \o sent.input.time.s)
    /\ \E i \in 1..(Len(Incidents) - 1) :
          Incidents[i].case_number = sent.input.case_number


----------------------------------------------------------------------------
\* the date-time of a stored or a sent row in written form, '-' in the date
Calendar(dt) == replaceAll(dt, "/", "-")

\* a is not earlier than b, both in written form
NotEarlier(a, b) == ~TextLess(a, b)

\* the number a body or a row gives for a numeric field
NumberOf(v) == IF v.t = "number" THEN v.n ELSE ToNat(v.s)

\* a filter field of a query is absent, or one of its comma-separated
\* elements is the number n
FilterAdmits(field, n) ==
    \/ field.t = "undefined"
    \/ \E i \in 1..Len(split(field.s, ",")) :
          LET e == split(field.s, ",")[i] IN IsDigits(e) /\ ToNat(e) = n

\* C5: round trip.  When the request answered last is a successful POST of a
\* valid body (so nothing was deleted since) and a GET completes whose code,
\* neighborhood and grid filters admit the incident's values, which has no
\* date filter, and whose limit is larger than the number of other stored
\* rows dated at or after the incident, the rows sent contain the incident
\* with date_time = date, one space, time.
C5_RoundTrip ==
    [][\A s \in Slots :
          LET body == sent.input
              query == reqs[s].input
              new == Str(body.date.s \o <<" ">> \o body.time.s)
              newer == {i \in 1..(Len(Incidents) - 1) :
                           NotEarlier(Calendar(Incidents[i].date_time.s), new.s)}
          IN (/\ reqs[s].kind = "GET" /\ reqs[s].pc = "all" /\ Steps(s)
              /\ sent.kind = "POST" /\ sent.res.status = 200
              /\ FilterAdmits(query.code, NumberOf(body.code))
              /\ FilterAdmits(query.grid, NumberOf(body.police_grid))
              /\ FilterAdmits(query.neighborhood, NumberOf(body.neighborhood_number))
              /\ query.start_date.t = "undefined" /\ query.end_date.t = "undefined"
              /\ query.limit.t = "string" => Cardinality(newer) < ToNat(query.limit.s)
              /\ ~EngineFailed(sent'))
             => \E j \in 1..Len(sent'.res.rows) :
                   /\ sent'.res.rows[j].case_number = body.case_number
                   /\ sent'.res.rows[j].date_time = new]_vars

----------------------------------------------------------------------------
\* C6: a GET answered 200 sends min(n, rows that pass the filters) rows, n
\* being the validated limit when given and 1000 otherwise, n never above
\* 1000; the rows are stored rows, each sent once, in descending order of the
\* stored date_time, and no date_time sent contains '/'.
C6_LimitOrderFormat ==
    (sent.kind = "GET" /\ sent.res.status = 200) =>
        LET rows == sent.res.rows
            k == Len(rows)
            n == IF sent.input.limit.t = "undefined" THEN DefaultLimit
                 ELSE NumberOf(sent.input.limit)
            avail == {i \in 1..Len(Incidents) :
                         Where(Incidents[i], sent.sql.filters, sent.params)}
        IN /\ n <= LimitMax
           /\ k = Min(n, Cardinality(avail))
           /\ \A j \in 1..k : \A i \in 1..Len(rows[j].date_time.s) :
                 rows[j].date_time.s[i] # "/"
           /\ \E f \in [1..k -> avail] :
                 /\ \A a, b \in 1..k : a # b => f[a] # f[b]
                 /\ \A j \in 1..k :
                       rows[j] = [Incidents[f[j]] EXCEPT
                                    !.date_time = Str(Calendar(Incidents[f[j]].date_time.s))]
                 /\ \A a, b \in 1..k : a < b =>
                       ~TextLess(Incidents[f[a]].date_time.s, Incidents[f[b]].date_time.s)

\* a GET with limit 1 sent one row, stored with '/' and sent with '-', while
\* more rows were available
C6_Witness ==
    /\ sent.kind = "GET" /\ sent.res.status = 200
    /\ sent.input.limit = Str(<<"1">>)
    /\ Len(sent.res.rows) = 1
    /\ Len(Incidents) >= 2
    /\ sent.sql.filters = <<>>
    /\ \E i \in 1..Len(Incidents) :
          /\ Incidents[i].date_time.s[5] = "/"
          /\ sent.res.rows[1].date_time = Str(Calendar(Incidents[i].date_time.s))
          /\ \A j \in 1..Len(Incidents) :
                ~TextLess(Incidents[i].date_time.s, Incidents[j].date_time.s)

----------------------------------------------------------------------------
\* what a validated query is expected to contribute, field by field
Commas(s) == Cardinality({i \in 1..Len(s) : s[i] = ","})
Present(v) == v.t = "string" /\ v.s # <<>>
ListPart(col, v) ==
    IF Present(v) THEN <<[col |-> col, op |-> "IN", n |-> Commas(v.s) + 1, text |-> v.s]>>
    ELSE <<>>
DatePart(op, v) ==
    IF Present(v) THEN <<[col |-> "date_time", op |-> op, n |-> 1, text |-> v.s]>>
    ELSE <<>>
Expected(query) ==
    ListPart("code", query.code) \o ListPart("neighborhood_number", query.neighborhood)
    \o ListPart("police_grid", query.grid)
    \o DatePart(">=", query.start_date) \o DatePart("<=", query.end_date)

RECURSIVE Before(_, _)
\* the number of values the parts before part i take
Before(parts, i) == IF i <= 1 THEN 0 ELSE Before(parts, i - 1) + parts[i - 1].n

RECURSIVE Joined(_)
\* string values written one after the other with ',' between
Joined(values) ==
    IF Len(values) = 0 THEN <<>>
    ELSE IF Len(values) = 1 THEN values[1].s
    ELSE values[1].s \o <<",">> \o Joined(Tail(values))

\* C7: the statement of every validated GET has as many '?' as the parameter
\* list has values; the clauses come in the order code, neighborhood, grid,
\* start_date, end_date, one per field present and none for an absent field;
\* a list field gives column IN (...) with one '?' per comma-separated
\* element, and its elements are the parameters, as strings, in their order.
C7_PlaceholdersMatchParams ==
    \A s \in Slots : (reqs[s].kind = "GET" /\ reqs[s].pc = "all") =>
        LET parts == Expected(reqs[s].input)
            filters == reqs[s].sql.filters
            params == reqs[s].params
        IN /\ Placeholders(filters) = Len(params)
           /\ \A i \in 1..Len(params) : params[i].t = "string"
           /\ Len(filters) = Len(parts)
           /\ \A i \in 1..Len(parts) :
                 /\ filters[i].col = parts[i].col
                 /\ filters[i].op = parts[i].op
                 /\ filters[i].conditions = [j \in 1..parts[i].n |-> "?"]
                 /\ Before(parts, i) + parts[i].n <= Len(params)
                 /\ parts[i].op = "IN" =>
                       Joined(SubSeq(params, Before(parts, i) + 1,
                                     Before(parts, i) + parts[i].n)) = parts[i].text

\* a GET with a two-element code list, the two other lists and both dates is
\* waiting for the store with five clauses and six parameters
C7_Witness ==
    \E s \in Slots :
        /\ reqs[s].kind = "GET" /\ reqs[s].pc = "all"
        /\ Len(reqs[s].sql.filters) = 5
        /\ Len(reqs[s].params) = 6
        /\ reqs[s].params[1] = Str(<<"2">>) /\ reqs[s].params[2] = Str(<<"1">>)

----------------------------------------------------------------------------
\* C8: every stored row's date_time has '/' as its date separator.
C8_StoredSeparator ==
    \A i \in 1..Len(Incidents) :
        /\ Incidents[i].date_time.s[5] = "/"
        /\ Incidents[i].date_time.s[8] = "/"

----------------------------------------------------------------------------
\* C9: the existence check and the delete statement of a DELETE are two store
\* calls with the request suspended in between: the check leaves the table as
\* it is and the request waiting for dbRun; the delete statement, unless the
\* store fails it, is answered 200 with the confirmation whatever number of
\* rows it removes, also none.
C9_CheckThenDelete ==
    [][\A s \in Slots :
          LET c == reqs[s].params[1]
          IN /\ (reqs[s].kind = "DELETE" /\ reqs[s].pc = "all" /\ reqs'[s].pc = "run") =>
                   /\ Incidents' = Incidents
                   /\ reqs'[s].ops = <<"all", "run">>
                   /\ reqs'[s].found = Cardinality(RowsOfCase(Incidents, c))
                   /\ reqs'[s].found >= 1
             /\ (reqs[s].kind = "DELETE" /\ reqs[s].pc = "run" /\ Steps(s)
                   /\ ~EngineFailed(sent')) =>
                   /\ sent'.res.status = 200
                   /\ sent'.res.text = <<"Case number ">> \o c.s \o <<" has been deleted.">>
                   /\ sent'.found = reqs[s].found
                   /\ sent'.removed = Cardinality(RowsOfCase(Incidents, c))]_vars

\* the race: a DELETE passed its existence check, another request removed the
\* rows before its delete statement ran, and it was answered 200 although its
\* statement removed nothing
C9_Witness ==
    /\ sent.kind = "DELETE"
    /\ sent.res.status = 200
    /\ sent.found >= 1
    /\ sent.removed = 0

----------------------------------------------------------------------------
\* the calendar date of a stored row, written YYYY-MM-DD
DateOf(row) == SubSeq(Calendar(row.date_time.s), 1, 10)

\* date d lies in the range a query asks for, both ends included
InRange(d, query) ==
    /\ query.start_date.t = "string" => ~TextLess(d, query.start_date.s)
    /\ query.end_date.t = "string" => ~TextLess(query.end_date.s, d)

\* C10: a GET with start_date and/or end_date and no other filter or limit
\* sends exactly the stored rows whose calendar date D has start_date <= D
\* and D <= end_date.
C10_DateRangeInclusive ==
    (/\ sent.kind = "GET" /\ sent.res.status = 200
     /\ sent.input.code.t = "undefined" /\ sent.input.neighborhood.t = "undefined"
     /\ sent.input.grid.t = "undefined" /\ sent.input.limit.t = "undefined") =>
        /\ Len(sent.res.rows)
             = Cardinality({i \in 1..Len(Incidents) : InRange(DateOf(Incidents[i]), sent.input)})
        /\ \A j \in 1..Len(sent.res.rows) : InRange(DateOf(sent.res.rows[j]), sent.input)


====
